---- MODULE Spec2Model ----
(***************************************************************************)
(* Model of the email triage server: the importance-scoring function, the  *)
(* tool handlers of EmailReminderServer, the VIP registry VIP_DOMAINS and  *)
(* the lazily authenticated GmailClient.                                   *)
(*                                                                         *)
(* Strings are sequences of one-character strings, so that toLowerCase,    *)
(* substring and includes are computed and not assumed.  Scores are kept   *)
(* in half points (Pts(n) is n points), because a subject keyword is worth *)
(* points * 1.5 and the weights 9, 7 and 5 are odd.                        *)
(***************************************************************************)
EXTENDS Integers, Sequences, FiniteSets, TLC

(***************************************************************************)
(* Bounds of the model.                                                    *)
(***************************************************************************)
\* length of the filler that pushes text towards the 500-character cut
PadLen == 489

\* tool calls that can be in progress at once
NumSlots == 2

\* messages that messages.list returns, with requests handled concurrently
MaxListConc == 2

\* messages that messages.list returns, with one request at a time
MaxListTriage == 3

\* the parts of one multipart part of a probed message structure
MaxParts == 2

\* the nesting depth of the probed message structures
MaxDepth == 2

(***************************************************************************)
(* JavaScript strings.                                                     *)
(***************************************************************************)
UpperAlphabet == <<"A", "B", "C", "D", "E", "F", "G", "H", "I", "J", "K", "L", "M", "N", "O", "P", "Q", "R", "S", "T", "U", "V", "W", "X", "Y", "Z">>

LowerAlphabet == <<"a", "b", "c", "d", "e", "f", "g", "h", "i", "j", "k", "l", "m", "n", "o", "p", "q", "r", "s", "t", "u", "v", "w", "x", "y", "z">>

LowerChar(c) ==
  IF \E i \in 1..Len(UpperAlphabet) : UpperAlphabet[i] = c
  THEN LowerAlphabet[CHOOSE i \in 1..Len(UpperAlphabet) : UpperAlphabet[i] = c]
  ELSE c

\* String.prototype.toLowerCase
ToLowerCase(s) == [i \in 1..Len(s) |-> LowerChar(s[i])]

Min(a, b) == IF a <= b THEN a ELSE b

Max(a, b) == IF a >= b THEN a ELSE b

\* String.prototype.substring(from, to), 0 <= from <= to
Substring(s, from, to) == SubSeq(s, from + 1, Min(to, Len(s)))

\* String.prototype.includes
Includes(s, t) ==
  \E i \in 0..(Len(s) - Len(t)) : SubSeq(s, i + 1, i + Len(t)) = t

(***************************************************************************)
(* Scoring criteria (module constants of the server).                      *)
(***************************************************************************)
\* Object.entries(IMPORTANCE_KEYWORDS), in insertion order
IMPORTANCE_KEYWORDS ==
  << [keyword |-> <<"u", "r", "g", "e", "n", "t">>, points |-> 10],
     [keyword |-> <<"i", "m", "p", "o", "r", "t", "a", "n", "t">>, points |-> 8],
     [keyword |-> <<"a", "s", "a", "p">>, points |-> 10],
     [keyword |-> <<"d", "e", "a", "d", "l", "i", "n", "e">>, points |-> 7],
     [keyword |-> <<"m", "e", "e", "t", "i", "n", "g">>, points |-> 6],
     [keyword |-> <<"a", "c", "t", "i", "o", "n", " ", "r", "e", "q", "u", "i", "r", "e", "d">>, points |-> 9],
     [keyword |-> <<"p", "l", "e", "a", "s", "e", " ", "r", "e", "s", "p", "o", "n", "d">>, points |-> 7],
     [keyword |-> <<"i", "n", "v", "o", "i", "c", "e">>, points |-> 6],
     [keyword |-> <<"p", "a", "y", "m", "e", "n", "t">>, points |-> 6],
     [keyword |-> <<"r", "e", "m", "i", "n", "d", "e", "r">>, points |-> 5],
     [keyword |-> <<"i", "n", "t", "e", "r", "v", "i", "e", "w">>, points |-> 8],
     [keyword |-> <<"a", "p", "p", "r", "o", "v", "a", "l">>, points |-> 7] >>

SPAM_INDICATORS ==
  << <<"u", "n", "s", "u", "b", "s", "c", "r", "i", "b", "e">>,
     <<"p", "r", "o", "m", "o", "t", "i", "o", "n", "a", "l">>,
     <<"m", "a", "r", "k", "e", "t", "i", "n", "g">>,
     <<"n", "e", "w", "s", "l", "e", "t", "t", "e", "r">>,
     <<"n", "o", "-", "r", "e", "p", "l", "y">>,
     <<"a", "d", "v", "e", "r", "t", "i", "s", "e", "m", "e", "n", "t">>,
     <<"d", "e", "a", "l", "s">>,
     <<"o", "f", "f", "e", "r", " ", "e", "x", "p", "i", "r", "e", "s">>,
     <<"l", "i", "m", "i", "t", "e", "d", " ", "t", "i", "m", "e">>,
     <<"a", "c", "t", " ", "n", "o", "w">> >>

(***************************************************************************)
(* Numbers.  A score is held in half points.                               *)
(***************************************************************************)
\* n points
Pts(n) == 2 * n

\* mutant: a subject keyword is worth no more than a body keyword
SubjectPtsPlain(points) == 2 * points

\* points * 1.5
SubjectPts(points) == 3 * points

\* the value is a whole number of points
IsInteger(score) == score % 2 = 0

\* 1000 * 60 * 60 milliseconds
MsPerHour == 1000 * 60 * 60

\* a Date: new Date(ms), and new Date(garbage), whose getTime() is NaN
DateOf(ms) == [valid |-> TRUE, time |-> ms]

InvalidDate == [valid |-> FALSE, time |-> 0]

\* hoursOld < h, with hoursOld = (Date.now() - received.getTime()) / MsPerHour
HoursOldLt(received, now, h) ==
  /\ received.valid   \* every comparison with NaN is false
  /\ now - received.time < h * MsPerHour

(***************************************************************************)
(* scoreEmailImportance                                                    *)
(***************************************************************************)
\* SPAM_INDICATORS.filter(subject.includes || body.includes).length
SpamCount(subject, body) ==
  Cardinality({ i \in 1..Len(SPAM_INDICATORS) :
                  \/ Includes(subject, SPAM_INDICATORS[i])
                  \/ Includes(body, SPAM_INDICATORS[i]) })

\* mutant: the domain is lower-cased before it is looked for in the sender
VipSenderIgnoreCase(sender, vipDomains) ==
  \E i \in 1..Len(vipDomains) : Includes(sender, ToLowerCase(vipDomains[i]))

\* VIP_DOMAINS.some((domain) => sender.includes(domain))
VipSender(sender, vipDomains) ==
  \E i \in 1..Len(vipDomains) : Includes(sender, vipDomains[i])

\* what one entry of IMPORTANCE_KEYWORDS adds
KeywordPts(entry, subject, body) ==
    (IF Includes(subject, entry.keyword) THEN SubjectPts(entry.points) ELSE 0)
  + (IF Includes(body, entry.keyword) THEN Pts(entry.points) ELSE 0)

RECURSIVE KeywordSum(_, _, _)
\* the for loop over the first n entries of IMPORTANCE_KEYWORDS
KeywordSum(n, subject, body) ==
  IF n = 0 THEN 0
  ELSE KeywordSum(n - 1, subject, body)
       + KeywordPts(IMPORTANCE_KEYWORDS[n], subject, body)

\* mutant: the two recency tiers exchanged
RecencyPtsReversed(received, now) ==
  IF HoursOldLt(received, now, 4) THEN Pts(5)
  ELSE IF HoursOldLt(received, now, 24) THEN Pts(15)
  ELSE 0

\* the recency bonus
RecencyPts(received, now) ==
  IF HoursOldLt(received, now, 4) THEN Pts(15)
  ELSE IF HoursOldLt(received, now, 24) THEN Pts(5)
  ELSE 0

\* mutant: no cap
CapScoreOff(score) == score

\* Math.min(score, 100)
CapScore(score) == Min(score, Pts(100))

\* the sum of the scoring terms of an email that is not spam
RawScore(email, vipDomains, now) ==
  LET subject == ToLowerCase(email.subject)
      sender  == ToLowerCase(email.from)
      body    == Substring(ToLowerCase(email.body), 0, 500)
  IN    (IF VipSender(sender, vipDomains) THEN Pts(20) ELSE 0)
      + KeywordSum(Len(IMPORTANCE_KEYWORDS), subject, body)
      + (IF email.isDirect THEN Pts(10) ELSE 0)
      + RecencyPts(email.received, now)
      + (IF email.hasAttachments THEN Pts(5) ELSE 0)

\* mutant: spam costs 10 points and the other terms still apply
scoreSpamPenalty(email, vipDomains, now) ==
  LET subject == ToLowerCase(email.subject)
      body    == Substring(ToLowerCase(email.body), 0, 500)
  IN CapScore(RawScore(email, vipDomains, now)
              - (IF SpamCount(subject, body) >= 2 THEN Pts(10) ELSE 0))

scoreEmailImportance(email, vipDomains, now) ==
  LET subject == ToLowerCase(email.subject)
      body    == Substring(ToLowerCase(email.body), 0, 500)
  IN IF SpamCount(subject, body) >= 2
     THEN -Pts(10)
     ELSE CapScore(RawScore(email, vipDomains, now))

(***************************************************************************)
(* Inputs of the scoring function.                                         *)
(***************************************************************************)
Pad == [i \in 1..PadLen |-> "x"]

ProbeSubjects ==
  { <<"U", "R", "G", "E", "N", "T", ":", " ", "a", "c", "t", "i", "o", "n", " ", "r", "e", "q", "u", "i", "r", "e", "d">>,
    <<"U", "n", "s", "u", "b", "s", "c", "r", "i", "b", "e", " ", "f", "r", "o", "m", " ", "P", "R", "O", "M", "O", "T", "I", "O", "N", "A", "L", " ", "d", "e", "a", "l", "s">>,
    <<"N", "e", "w", "s", "l", "e", "t", "t", "e", "r">>,
    <<"h", "e", "l", "l", "o">>,
    <<"u", "r", "g", "e", "n", "t", " ", "i", "m", "p", "o", "r", "t", "a", "n", "t", " ", "a", "s", "a", "p", " ", "d", "e", "a", "d", "l", "i", "n", "e", " ", "m", "e", "e", "t", "i", "n", "g", " ", "a", "c", "t", "i", "o", "n", " ", "r", "e", "q", "u", "i", "r", "e", "d", " ", "p", "l", "e", "a", "s", "e", " ", "r", "e", "s", "p", "o", "n", "d", " ", "i", "n", "v", "o", "i", "c", "e", " ", "p", "a", "y", "m", "e", "n", "t", " ", "r", "e", "m", "i", "n", "d", "e", "r", " ", "i", "n", "t", "e", "r", "v", "i", "e", "w", " ", "a", "p", "p", "r", "o", "v", "a", "l">> }

ProbeBodies ==
  { <<"p", "l", "e", "a", "s", "e", " ", "r", "e", "s", "p", "o", "n", "d", " ", "a", "s", "a", "p">>,
    <<>>,
    <<"l", "i", "m", "i", "t", "e", "d", " ", "t", "i", "m", "e", " ", "o", "f", "f", "e", "r">>,
    Pad \o <<"u", "n", "s", "u", "b", "s", "c", "r", "i", "b", "e", " ", "m", "a", "r", "k", "e", "t", "i", "n", "g">> }

ProbeSenders ==
  { <<"b", "o", "s", "s", "@", "v", "i", "p", ".", "c", "o", "m">>,
    <<"B", "o", "s", "s", "@", "V", "I", "P", ".", "C", "O", "M">>,
    <<"n", "e", "w", "s", "@", "s", "h", "o", "p", ".", "c", "o", "m">> }

ProbeVipLists ==
  { <<>>,
    << <<"v", "i", "p", ".", "c", "o", "m">> >>,
    << <<"a", "c", "m", "e", ".", "c", "o", "m">>, <<"v", "i", "p", ".", "c", "o", "m">> >>,
    << <<"V", "I", "P", ".", "c", "o", "m">> >> }

\* Date.now() at the time of scoring
NowValues == { 0, 3 * MsPerHour }

ProbeReceived ==
  { DateOf(-MsPerHour), DateOf(-(4 * MsPerHour)), DateOf(-(21 * MsPerHour)),
    InvalidDate }

\* no email is being scored
ProbeNone == [id |-> 0]

ProbeEmails ==
  [ id : {1}, from : ProbeSenders, subject : ProbeSubjects, body : ProbeBodies,
    received : ProbeReceived, isDirect : BOOLEAN, hasAttachments : BOOLEAN,
    labels : {<<>>} ]

(***************************************************************************)
(* Buffer.from(data, "base64").toString("utf-8"), for ASCII text.          *)
(***************************************************************************)
Base64Digits == <<"A", "B", "C", "D", "E", "F", "G", "H", "I", "J", "K", "L", "M", "N", "O", "P", "Q", "R", "S", "T", "U", "V", "W", "X", "Y", "Z", "a", "b", "c", "d", "e", "f", "g", "h", "i", "j", "k", "l", "m", "n", "o", "p", "q", "r", "s", "t", "u", "v", "w", "x", "y", "z", "0", "1", "2", "3", "4", "5", "6", "7", "8", "9">>

\* the characters of code 32 to 126 (the quote, backslash and backquote shown as ?)
PrintableAscii == <<" ", "!", "?", "#", "$", "%", "&", "'", "(", ")", "*", "+", ",", "-", ".", "/", "0", "1", "2", "3", "4", "5", "6", "7", "8", "9", ":", ";", "<", "=", ">", "?", "@", "A", "B", "C", "D", "E", "F", "G", "H", "I", "J", "K", "L", "M", "N", "O", "P", "Q", "R", "S", "T", "U", "V", "W", "X", "Y", "Z", "[", "?", "]", "^", "_", "?", "a", "b", "c", "d", "e", "f", "g", "h", "i", "j", "k", "l", "m", "n", "o", "p", "q", "r", "s", "t", "u", "v", "w", "x", "y", "z", "{", "|", "}", "~">>

IsBase64Char(c) ==
  \/ c \in {"+", "-", "/", "_"}
  \/ \E i \in 1..Len(Base64Digits) : Base64Digits[i] = c

\* the six bits of a digit; both the standard and the URL-safe alphabet decode
Base64Value(c) ==
  IF c \in {"+", "-"} THEN 62
  ELSE IF c \in {"/", "_"} THEN 63
  ELSE (CHOOSE i \in 1..Len(Base64Digits) : Base64Digits[i] = c) - 1

\* byte k (from 0) of the bit stream of the digits v
Base64Byte(v, k) ==
  LET i   == ((8 * k) \div 6) + 1
      off == (8 * k) % 6
  IN IF off = 0 THEN (v[i] * 4) + (v[i + 1] \div 16)
     ELSE IF off = 2 THEN ((v[i] % 16) * 16) + (v[i + 1] \div 4)
     ELSE ((v[i] % 4) * 64) + v[i + 1]

ByteToChar(b) == IF b >= 32 /\ b <= 126 THEN PrintableAscii[b - 31] ELSE "?"

Base64Decode(data) ==
  LET digits == SelectSeq(data, IsBase64Char)
      v      == [i \in 1..Len(digits) |-> Base64Value(digits[i])]
      n      == (6 * Len(digits)) \div 8
  IN [k \in 1..n |-> ByteToChar(Base64Byte(v, k - 1))]

(***************************************************************************)
(* The provider's messages (gmail_v1.Schema$Message).                      *)
(***************************************************************************)
\* a part without sub-parts
Leaf(mimeType, data, filename, attachmentId) ==
  [ mimeType |-> mimeType, data |-> data, filename |-> filename,
    attachmentId |-> attachmentId, hasParts |-> FALSE, parts |-> <<>> ]

\* a multipart part
Multipart(mimeType, parts) ==
  [ mimeType |-> mimeType, data |-> <<>>, filename |-> <<>>,
    attachmentId |-> <<>>, hasParts |-> TRUE, parts |-> parts ]

Header(name, value) == [name |-> name, value |-> value]

\* the parts without sub-parts of the probed structures: text/plain "A" and
\* "B", text/html "H", an empty text/plain, an attachment, an inline file
\* without attachment reference
ProbeLeaves ==
  { Leaf("text/plain", <<"Q", "Q", "=", "=">>, <<>>, <<>>),
    Leaf("text/plain", <<"Q", "g", "=", "=">>, <<>>, <<>>),
    Leaf("text/html", <<"S", "A", "=", "=">>, <<>>, <<>>),
    Leaf("text/plain", <<>>, <<>>, <<>>),
    Leaf("application/pdf", <<>>, <<"a", ".", "p", "d", "f">>, <<"a", "t", "t", "-", "1">>),
    Leaf("image/png", <<>>, <<"a", ".", "p", "n", "g">>, <<>>) }

RECURSIVE PartLists(_, _)
\* the lists of at most n parts
PartLists(parts, n) ==
  IF n = 0 THEN { <<>> }
  ELSE LET shorter == PartLists(parts, n - 1)
       IN shorter \cup
          { Append(l, p) : l \in { x \in shorter : Len(x) = n - 1 }, p \in parts }

RECURSIVE ProbeParts(_)
\* the parts nested at most depth deep
ProbeParts(depth) ==
  IF depth = 0 THEN ProbeLeaves
  ELSE LET inner == ProbeParts(depth - 1)
       IN inner \cup { Multipart("multipart/mixed", l) :
                         l \in PartLists(inner, MaxParts) }

\* the probed message.payload values: a single part, or a multipart of parts
\* nested at most MaxDepth deep, with or without a body "T" of its own
ProbePayloads ==
  ProbeLeaves \cup
  { [ Multipart("multipart/mixed", l) EXCEPT !.data = data ] :
      l \in PartLists(ProbeParts(MaxDepth - 1), MaxParts),
      data \in { <<>>, <<"V", "A", "=", "=">> } }

\* no message structure is probed
NoPayload == Leaf("", <<>>, <<>>, <<>>)

\* the Date header values that new Date(dateStr) parses, with their time value
KnownDates ==
  { [text |-> <<"1", "9", "6", "9", "-", "1", "2", "-", "3", "1", "T", "2", "3", ":", "0", "0", ":", "0", "0", "Z">>, time |-> -MsPerHour],
    [text |-> <<"1", "9", "6", "9", "-", "1", "2", "-", "3", "1", "T", "0", "3", ":", "0", "0", ":", "0", "0", "Z">>, time |-> -(21 * MsPerHour)] }

\* new Date(dateStr)
ParseDate(dateStr) ==
  IF \E d \in KnownDates : d.text = dateStr
  THEN DateOf((CHOOSE d \in KnownDates : d.text = dateStr).time)
  ELSE InvalidDate

\* the mailbox at the provider: message id |-> message
Mailbox ==
  << \* 1: urgent mail of a VIP sender, multipart/alternative
     [ hasPayload |-> TRUE,
       headers |-> << Header(<<"F", "r", "o", "m">>, <<"b", "o", "s", "s", "@", "v", "i", "p", ".", "c", "o", "m">>),
                      Header(<<"s", "u", "b", "j", "e", "c", "t">>, <<"U", "R", "G", "E", "N", "T", ":", " ", "a", "c", "t", "i", "o", "n", " ", "r", "e", "q", "u", "i", "r", "e", "d">>),
                      Header(<<"T", "o">>, <<"m", "e", "@", "e", "x", "a", "m", "p", "l", "e", ".", "c", "o", "m">>),
                      Header(<<"D", "a", "t", "e">>, <<"1", "9", "6", "9", "-", "1", "2", "-", "3", "1", "T", "2", "3", ":", "0", "0", ":", "0", "0", "Z">>) >>,
       payload |-> Multipart("multipart/alternative",
                     << Leaf("text/plain", <<"c", "G", "x", "l", "Y", "X", "N", "l", "I", "H", "J", "l", "c", "3", "B", "v", "b", "m", "Q", "g", "Y", "X", "N", "h", "c", "A", "=", "=">>, <<>>, <<>>),
                        Leaf("text/html", <<"P", "H", "A", "-", "a", "H", "R", "t", "b", "C", "B", "h", "c", "2", "F", "w", "P", "C", "9", "w", "P", "g", "=", "=">>, <<>>, <<>>) >>),
       labelIds |-> << "UNREAD", "INBOX" >> ],
     \* 2: a newsletter of a VIP domain, single part
     [ hasPayload |-> TRUE,
       headers |-> << Header(<<"F", "r", "o", "m">>, <<"n", "o", "-", "r", "e", "p", "l", "y", "@", "v", "i", "p", ".", "c", "o", "m">>),
                      Header(<<"S", "u", "b", "j", "e", "c", "t">>, <<"W", "e", "e", "k", "l", "y", " ", "d", "i", "g", "e", "s", "t">>),
                      Header(<<"T", "o">>, <<"m", "e", "@", "e", "x", "a", "m", "p", "l", "e", ".", "c", "o", "m">>),
                      Header(<<"D", "a", "t", "e">>, <<"1", "9", "6", "9", "-", "1", "2", "-", "3", "1", "T", "2", "3", ":", "0", "0", ":", "0", "0", "Z">>) >>,
       payload |-> Leaf("text/plain",
                     <<"d", "W", "5", "z", "d", "W", "J", "z", "Y", "3", "J", "p", "Y", "m", "U", "g", "Z", "n", "J", "v", "b", "S", "B", "v", "d", "X", "I", "g", "b", "m", "V", "3", "c", "2", "x", "l", "d", "H", "R", "l", "c", "g", "=", "=">>, <<>>, <<>>),
       labelIds |-> << "UNREAD" >> ],
     \* 3: no To header, a Date that does not parse, the attachment nested
     [ hasPayload |-> TRUE,
       headers |-> << Header(<<"F", "r", "o", "m">>, <<"b", "o", "b", "@", "a", "c", "m", "e", ".", "c", "o", "m">>),
                      Header(<<"S", "u", "b", "j", "e", "c", "t">>, <<"h", "e", "l", "l", "o">>),
                      Header(<<"D", "a", "t", "e">>, <<"y", "e", "s", "t", "e", "r", "d", "a", "y">>) >>,
       payload |-> Multipart("multipart/mixed",
                     << Multipart("multipart/related",
                          << Leaf("text/plain", <<"a", "G", "V", "s", "b", "G", "8", "g", "d", "G", "V", "h", "b", "Q", "=", "=">>, <<>>, <<>>),
                             Leaf("application/pdf", <<>>, <<"a", ".", "p", "d", "f">>, <<"a", "t", "t", "-", "1">>) >>) >>),
       labelIds |-> << "UNREAD" >> ],
     \* 4: no payload at all
     [ hasPayload |-> FALSE,
       headers |-> <<>>,
       payload |-> Leaf("", <<>>, <<>>, <<>>),
       labelIds |-> <<>> ],
     \* 5: important mail of acme.com, single part
     [ hasPayload |-> TRUE,
       headers |-> << Header(<<"F", "r", "o", "m">>, <<"a", "l", "@", "a", "c", "m", "e", ".", "c", "o", "m">>),
                      Header(<<"S", "u", "b", "j", "e", "c", "t">>, <<"I", "n", "t", "e", "r", "v", "i", "e", "w">>),
                      Header(<<"T", "o">>, <<"m", "e", "@", "e", "x", "a", "m", "p", "l", "e", ".", "c", "o", "m">>),
                      Header(<<"D", "a", "t", "e">>, <<"1", "9", "6", "9", "-", "1", "2", "-", "3", "1", "T", "2", "3", ":", "0", "0", ":", "0", "0", "Z">>) >>,
       payload |-> Leaf("text/plain", <<"b", "2", "s", "=">>, <<>>, <<>>),
       labelIds |-> << "UNREAD", "INBOX" >> ] >>

MessageIds == 1..Len(Mailbox)

(***************************************************************************)
(* GmailClient: mapping a provider message to an Email.                    *)
(***************************************************************************)
\* the smallest element of a non-empty set of numbers
First(S) == CHOOSE i \in S : \A j \in S : i <= j

\* a || b on strings
OrElse(a, b) == IF a = <<>> THEN b ELSE a

\* headers.find(h => h.name.toLowerCase() === name.toLowerCase())?.value || ""
getHeader(headers, name) ==
  LET found == { i \in 1..Len(headers) :
                   ToLowerCase(headers[i].name) = ToLowerCase(name) }
  IN IF found = {} THEN <<>> ELSE headers[First(found)].value

RECURSIVE extractBody(_)
extractBody(payload) ==
  LET plain  == { i \in 1..Len(payload.parts) :
                    /\ payload.parts[i].mimeType = "text/plain"
                    /\ payload.parts[i].data # <<>> }
      nested == { i \in 1..Len(payload.parts) :
                    extractBody(payload.parts[i]) # <<>> }
  IN IF payload.hasParts /\ plain # {}
       THEN Base64Decode(payload.parts[First(plain)].data)
     ELSE IF payload.hasParts /\ nested # {}
       THEN extractBody(payload.parts[First(nested)])
     ELSE IF payload.data # <<>>
       THEN Base64Decode(payload.data)
     ELSE <<>>

hasAttachments(payload) ==
  /\ payload.hasParts
  /\ \E i \in 1..Len(payload.parts) :
       /\ payload.parts[i].filename # <<>>
       /\ payload.parts[i].attachmentId # <<>>

\* the Email that getEmailDetails returns for a message fetched at time now
getEmailDetails(messageId, now) ==
  LET message == Mailbox[messageId]
      headers == IF message.hasPayload THEN message.headers ELSE <<>>
      to      == getHeader(headers, <<"T", "o">>)
      dateStr == getHeader(headers, <<"D", "a", "t", "e">>)
  IN [ id |-> messageId,
       from |-> OrElse(getHeader(headers, <<"F", "r", "o", "m">>), <<"U", "n", "k", "n", "o", "w", "n">>),
       subject |-> OrElse(getHeader(headers, <<"S", "u", "b", "j", "e", "c", "t">>), <<"N", "o", " ", "S", "u", "b", "j", "e", "c", "t">>),
       body |-> IF message.hasPayload THEN extractBody(message.payload) ELSE <<>>,
       received |-> IF dateStr # <<>> THEN ParseDate(dateStr) ELSE DateOf(now),
       isDirect |-> Len(to) > 0,
       hasAttachments |-> message.hasPayload /\ hasAttachments(message.payload),
       labels |-> message.labelIds ]

\* getEmailDetails of every message of the mailbox, at every fetch time
FetchedEmail ==
  [ messageId \in MessageIds |->
      [ now \in NowValues |-> getEmailDetails(messageId, now) ] ]

(***************************************************************************)
(* Array operations of the tool handlers.                                  *)
(***************************************************************************)
\* mutant: the entries stay in the order of the batch
InsertAtEnd(e, sorted) == Append(sorted, e)

\* e goes behind every entry whose score is not lower: equal scores keep
\* their order, as Array.prototype.sort does with (a, b) => b.score - a.score
InsertByScore(e, sorted) ==
  LET before == { i \in 1..Len(sorted) :
                    sorted[i].importanceScore >= e.importanceScore }
      k == Cardinality(before)
  IN SubSeq(sorted, 1, k) \o << e >> \o SubSeq(sorted, k + 1, Len(sorted))

RECURSIVE SortByScoreDesc(_)
SortByScoreDesc(seq) ==
  IF seq = <<>> THEN <<>>
  ELSE InsertByScore(seq[Len(seq)], SortByScoreDesc(SubSeq(seq, 1, Len(seq) - 1)))

\* mutant: the list is cut at its other end
SliceFromEnd(seq, end) ==
  SubSeq(seq, Max(Len(seq) - Max(end, 0), 0) + 1, Len(seq))

\* Array.prototype.slice(0, end): a negative end counts from the end
Slice(seq, end) ==
  LET final == IF end < 0 THEN Max(Len(seq) + end, 0) ELSE Min(end, Len(seq))
  IN SubSeq(seq, 1, final)

\* mutant: the emails are scored against the VIP list of the process start
ScoreAllAtStartup(emails, vipDomains, now) ==
  [ i \in 1..Len(emails) |->
      [ email |-> emails[i],
        importanceScore |-> scoreEmailImportance(emails[i], <<>>, now) ] ]

\* emails.map(email => ({...email, importanceScore: scoreEmailImportance(email)}))
ScoreAll(emails, vipDomains, now) ==
  [ i \in 1..Len(emails) |->
      [ email |-> emails[i],
        importanceScore |-> scoreEmailImportance(emails[i], vipDomains, now) ] ]

\* mutant: the lower boundary belongs to no category
CountBetweenOpen(scored, lo, hi) ==
  Cardinality({ i \in 1..Len(scored) :
                  scored[i].importanceScore > lo /\ scored[i].importanceScore < hi })

\* the number of scored emails with lo <= score < hi
CountBetween(scored, lo, hi) ==
  Cardinality({ i \in 1..Len(scored) :
                  scored[i].importanceScore >= lo /\ scored[i].importanceScore < hi })

(***************************************************************************)
(* Requests (the params of a CallToolRequest).  An optional argument is    *)
(* <<>> when it is not given and <<v>> when it is.                         *)
(***************************************************************************)
NoArgs ==
  [ hours_back |-> <<>>, min_importance |-> <<>>, max_results |-> <<>>,
    email_id |-> <<>>, domain |-> <<>> ]

\* a ?? b
Nullish(a, b) == IF a = <<>> THEN b ELSE a[1]

\* the domains add_vip_domain is called with
DomainInputs == { <<"v", "i", "p", ".", "c", "o", "m">>, <<"a", "c", "m", "e", ".", "c", "o", "m">> }

\* requests of the concurrent specification
ConcImportantArgs == { NoArgs }

ConcSummaryArgs == { NoArgs }

\* requests of the sequential specification
TriageImportantArgs ==
  { [NoArgs EXCEPT !.min_importance = mi, !.max_results = mr] :
      mi \in { <<>>, <<0>>, <<-10>>, <<80>> },
      mr \in { <<>>, <<-1>>, <<0>>, <<1>>, <<2>> } }

MarkArgs == { NoArgs, [NoArgs EXCEPT !.email_id = <<1>>] }

DomainArgs == { NoArgs } \cup { [NoArgs EXCEPT !.domain = <<d>>] : d \in DomainInputs }

RECURSIVE ListsOver(_, _)
\* the lists of at most n distinct message ids among ids
ListsOver(ids, n) ==
  IF n = 0 THEN { <<>> }
  ELSE LET shorter == ListsOver(ids, n - 1)
       IN shorter \cup
          { Append(l, m) : l \in { x \in shorter : Len(x) = n - 1 },
                           m \in ids } 

NoRepeat(l) == \A i, j \in 1..Len(l) : i # j => l[i] # l[j]

\* what messages.list returns in the concurrent specification
ConcLists == { Slice(<<1, 5>>, n) : n \in 0..MaxListConc }

\* what messages.list returns in the sequential specification
TriageLists == { l \in ListsOver(MessageIds \ {5}, MaxListTriage) : NoRepeat(l) }

(***************************************************************************)
(* State.                                                                  *)
(***************************************************************************)
Slots == 1..NumSlots

\* null
Null == 0

IdleSlot == [pc |-> "idle"]

NoResponse == [kind |-> "none"]

VARIABLES
  VIP_DOMAINS,      \* the module-level VIP list
  gmail,            \* GmailClient.gmail: Null or the client it was built from
  auth,             \* GmailClient.auth: Null or an OAuth2 client
  credentialsFile,  \* dist/credentials.json: "missing" or "ok"
  tokenFile,        \* dist/token.json: "missing" or "ok"
  slots,            \* the tool calls in progress, each suspended at an await
  response,         \* the result the request handler returns, until it is sent
  stdinReaders,     \* readline interfaces opened on process.stdin
  email,            \* the email handed to scoreEmailImportance
  score,            \* what scoreEmailImportance returned for it
  scoredAt,         \* Date.now() of that call
  probePc,          \* "input" before the probed call, "scored" or "extracted"
                    \* after it
  payload,          \* the message.payload handed to extractBody, hasAttachments
  extracted         \* what they returned for it

serverVars ==
  << gmail, auth, credentialsFile, tokenFile, slots, response, stdinReaders >>

probeVars == << email, score, scoredAt, probePc, payload, extracted >>

vars == << VIP_DOMAINS, serverVars, probeVars >>

\* GmailClient.isAuthenticated
isAuthenticated == gmail # Null /\ auth # Null

\* the OAuth2 client that the authenticate() call of slot s constructs
ClientOf(s) == s

(***************************************************************************)
(* Results of the request handler.                                         *)
(***************************************************************************)
\* the handler of slot s returns content: the call is over
Return(s, content) ==
  /\ response' = content
  /\ slots' = [slots EXCEPT ![s] = IdleSlot]

\* the catch of the CallToolRequest handler: text is `Error: ${message}`
ErrorResult(s, name, error, hasAuthUrl) ==
  [ kind |-> "error", slot |-> s, name |-> name,
    text |-> << "Error: ", error >>, hasAuthUrl |-> hasAuthUrl ]

\* mutant: the failure is swallowed and the call returns a success
ThrowSwallowed(s, name, error) ==
  Return(s, [ kind |-> "result", slot |-> s, name |-> name, args |-> NoArgs ])

Throw(s, name, error) == Return(s, ErrorResult(s, name, error, FALSE))

\* the result of getImportantEmails, or the RangeError of toISOString
ImportantResult(s, args, emails, now) ==
  LET minImportance == Nullish(args.min_importance, 30)
      maxResults    == Nullish(args.max_results, 10)
      scored   == ScoreAll(emails, VIP_DOMAINS, now)
      filtered == SelectSeq(scored, LAMBDA e : e.importanceScore >= Pts(minImportance))
      scoredEmails == Slice(SortByScoreDesc(filtered), maxResults)
  IN IF \E i \in 1..Len(scoredEmails) : ~scoredEmails[i].email.received.valid
     THEN ErrorResult(s, "get_important_emails", "Invalid time value", FALSE)
     ELSE [ kind |-> "result", slot |-> s, name |-> "get_important_emails",
            args |-> args,
            fetched |-> [i \in 1..Len(emails) |-> emails[i].id],
            totalImportant |-> Len(scoredEmails),
            emails |-> [ i \in 1..Len(scoredEmails) |->
                         [ id |-> scoredEmails[i].email.id,
                           importanceScore |-> scoredEmails[i].importanceScore,
                           isDirect |-> scoredEmails[i].email.isDirect,
                           hasAttachments |-> scoredEmails[i].email.hasAttachments ] ] ]

\* the result of getEmailSummary
SummaryResult(s, args, emails, now) ==
  LET scored == ScoreAll(emails, VIP_DOMAINS, now)
      urgent == Cardinality({ i \in 1..Len(scored) :
                                scored[i].importanceScore >= Pts(70) })
      important == CountBetween(scored, Pts(40), Pts(70))
      normal == CountBetween(scored, Pts(0), Pts(40))
      spam == Cardinality({ i \in 1..Len(scored) : scored[i].importanceScore < 0 })
  IN [ kind |-> "result", slot |-> s, name |-> "get_email_summary",
       args |-> args,
       fetched |-> [i \in 1..Len(emails) |-> emails[i].id],
       totalUnread |-> Len(emails),
       breakdown |-> [ urgent |-> urgent, important |-> important,
                       normal |-> normal, likelySpam |-> spam ],
       recommendation |-> IF urgent > 0 THEN "urgent"
                          ELSE IF important > 0 THEN "important"
                          ELSE "caught up" ]

\* the handler of slot s has all the emails of its batch
Complete(s, emails, now) ==
  IF slots[s].name = "get_important_emails"
  THEN Return(s, ImportantResult(s, slots[s].args, emails, now))
  ELSE Return(s, SummaryResult(s, slots[s].args, emails, now))

(***************************************************************************)
(* GmailClient: the awaits of authenticate, fetchUnreadEmails, markAsRead. *)
(***************************************************************************)
\* a tool call may be taken up by slot s
CanStart(s) == slots[s].pc = "idle" /\ response.kind = "none"

\* slot s is suspended at the await named pc
At(s, pc) == slots[s].pc = pc /\ response.kind = "none"

Suspend(s, pc, name, args, pending, emails) ==
  slots' = [slots EXCEPT ![s] = [ pc |-> pc, name |-> name, args |-> args,
                                   pending |-> pending, emails |-> emails ]]

\* authenticate(), up to its first await: fs.readFile(CREDENTIALS_PATH)
BeginAuthenticate(s, name, args) ==
  /\ Suspend(s, "authCredentials", name, args, <<>>, <<>>)
  /\ response' = response

\* fetchUnreadEmails(), up to its first await: gmail.users.messages.list
BeginFetch(s, name, args, client) ==
  IF client = Null
  THEN Throw(s, name, "Gmail client not authenticated")
  ELSE /\ Suspend(s, "list", name, args, <<>>, <<>>)
       /\ response' = response

\* markAsRead(), up to its await: gmail.users.messages.modify
BeginMarkAsRead(s, name, args, client) ==
  IF client = Null
  THEN Throw(s, name, "Gmail client not authenticated")
  ELSE /\ Suspend(s, "modify", name, args, <<>>, <<>>)
       /\ response' = response

\* the handler's code behind `await this.gmailClient.authenticate()`
AfterAuthenticate(s, client) ==
  IF slots[s].name = "mark_email_handled"
  THEN BeginMarkAsRead(s, slots[s].name, slots[s].args, client)
  ELSE BeginFetch(s, slots[s].name, slots[s].args, client)

\* the interactive code exchange: a readline interface on process.stdin
getNewToken(s) ==
  /\ stdinReaders' = stdinReaders + 1
  /\ Suspend(s, "prompt", slots[s].name, slots[s].args, <<>>, <<>>)
  /\ response' = response
  /\ UNCHANGED << gmail, auth >>

\* mutant: without a token, authenticate falls back to the interactive exchange
TokenMissingPrompts(s) == getNewToken(s)

\* mutant: a failed token load resets the session
TokenMissingResets(s) ==
  /\ Return(s, ErrorResult(s, slots[s].name,
                           "No token.json found. Gmail authentication required.",
                           TRUE))
  /\ gmail' = Null
  /\ auth' = Null
  /\ stdinReaders' = stdinReaders

\* the catch around the token load of authenticate
TokenMissing(s) ==
  /\ Return(s, ErrorResult(s, slots[s].name,
                           "No token.json found. Gmail authentication required.",
                           TRUE))
  /\ UNCHANGED << gmail, auth, stdinReaders >>

\* the credentials are read: the catch, or on to fs.readFile(TOKEN_PATH)
AuthCredentialsRead(s) ==
  /\ At(s, "authCredentials")
  /\ IF credentialsFile = "missing"
     THEN Throw(s, slots[s].name, "Error loading credentials.json.")
     ELSE /\ slots' = [slots EXCEPT ![s].pc = "authToken"]
          /\ response' = response
  /\ UNCHANGED << VIP_DOMAINS, gmail, auth, credentialsFile, tokenFile,
                  stdinReaders, probeVars >>

\* the token is read: the catch, or the session is assigned and the handler
\* goes on
AuthTokenRead(s) ==
  /\ At(s, "authToken")
  /\ IF tokenFile = "missing"
     THEN TokenMissing(s)
     ELSE /\ auth' = ClientOf(s)
          /\ gmail' = ClientOf(s)
          /\ stdinReaders' = stdinReaders
          /\ AfterAuthenticate(s, ClientOf(s))
  /\ UNCHANGED << VIP_DOMAINS, credentialsFile, tokenFile, probeVars >>

\* messages.list answers: it fails, or it lists the ids of l
MessagesListed(s, lists) ==
  /\ At(s, "list")
  /\ \/ Throw(s, slots[s].name, "messages.list failed")
     \/ \E l \in lists, now \in NowValues :
          IF l = <<>>
          THEN Complete(s, <<>>, now)
          ELSE /\ slots' = [slots EXCEPT ![s].pc = "get", ![s].pending = l]
               /\ response' = response
  /\ UNCHANGED << VIP_DOMAINS, gmail, auth, credentialsFile, tokenFile,
                  stdinReaders, probeVars >>

\* messages.get of the next listed id answers: getEmailDetails returns null
\* (the message is skipped) or the Email; behind the last one the batch is
\* scored
MessageFetched(s) ==
  /\ At(s, "get")
  /\ \E ok \in BOOLEAN, now \in NowValues :
       LET id     == Head(slots[s].pending)
           emails == IF ok THEN Append(slots[s].emails, FetchedEmail[id][now])
                     ELSE slots[s].emails
       IN IF Tail(slots[s].pending) = <<>>
          THEN Complete(s, emails, now)
          ELSE /\ slots' = [slots EXCEPT ![s].pending = Tail(@),
                                         ![s].emails = emails]
               /\ response' = response
  /\ UNCHANGED << VIP_DOMAINS, gmail, auth, credentialsFile, tokenFile,
                  stdinReaders, probeVars >>

\* messages.modify answers
MessageModified(s) ==
  /\ At(s, "modify")
  /\ \/ Throw(s, slots[s].name, "messages.modify failed")
     \/ Return(s, [ kind |-> "result", slot |-> s, name |-> slots[s].name,
                    args |-> slots[s].args ])
  /\ UNCHANGED << VIP_DOMAINS, gmail, auth, credentialsFile, tokenFile,
                  stdinReaders, probeVars >>

(***************************************************************************)
(* EmailReminderServer: the tool handlers, up to their first await.        *)
(***************************************************************************)
\* reading a property of args when the request carries no arguments
NoArguments(s, name) == Throw(s, name, "Cannot read properties of undefined")

getImportantEmails(s, hasArgs, args) ==
  /\ CanStart(s)
  /\ IF ~hasArgs THEN NoArguments(s, "get_important_emails")
     ELSE IF ~isAuthenticated
       THEN BeginAuthenticate(s, "get_important_emails", args)
     ELSE BeginFetch(s, "get_important_emails", args, gmail)
  /\ UNCHANGED << VIP_DOMAINS, gmail, auth, credentialsFile, tokenFile,
                  stdinReaders, probeVars >>

getEmailSummary(s, hasArgs, args) ==
  /\ CanStart(s)
  /\ IF ~hasArgs THEN NoArguments(s, "get_email_summary")
     ELSE IF ~isAuthenticated
       THEN BeginAuthenticate(s, "get_email_summary", args)
     ELSE BeginFetch(s, "get_email_summary", args, gmail)
  /\ UNCHANGED << VIP_DOMAINS, gmail, auth, credentialsFile, tokenFile,
                  stdinReaders, probeVars >>

markEmailHandled(s, hasArgs, args) ==
  /\ CanStart(s)
  /\ IF ~hasArgs THEN NoArguments(s, "mark_email_handled")
     ELSE IF args.email_id = <<>>
       THEN Throw(s, "mark_email_handled", "email_id is required")
     ELSE IF ~isAuthenticated
       THEN BeginAuthenticate(s, "mark_email_handled", args)
     ELSE BeginMarkAsRead(s, "mark_email_handled", args, gmail)
  /\ UNCHANGED << VIP_DOMAINS, gmail, auth, credentialsFile, tokenFile,
                  stdinReaders, probeVars >>

\* VIP_DOMAINS.includes(domain)
VipIncludes(vipDomains, domain) ==
  \E i \in 1..Len(vipDomains) : vipDomains[i] = domain

\* mutant: push without the includes test
PushVipAlways(vipDomains, domain) == Append(vipDomains, domain)

\* mutant: the list is written back from a copy that misses the other adds
PushVipOverwrite(vipDomains, domain) == << domain >>

\* if (!VIP_DOMAINS.includes(domain)) VIP_DOMAINS.push(domain)
PushVip(vipDomains, domain) ==
  IF VipIncludes(vipDomains, domain) THEN vipDomains
  ELSE Append(vipDomains, domain)

addVipDomain(s, hasArgs, args) ==
  /\ CanStart(s)
  /\ IF ~hasArgs
     THEN NoArguments(s, "add_vip_domain") /\ UNCHANGED VIP_DOMAINS
     ELSE IF args.domain = <<>> \/ args.domain = << <<>> >>
       THEN Throw(s, "add_vip_domain", "domain is required")
            /\ UNCHANGED VIP_DOMAINS
     ELSE /\ VIP_DOMAINS' = PushVip(VIP_DOMAINS, args.domain[1])
          /\ Return(s, [ kind |-> "result", slot |-> s, name |-> "add_vip_domain",
                         args |-> args, vipDomains |-> VIP_DOMAINS' ])
  /\ UNCHANGED << gmail, auth, credentialsFile, tokenFile, stdinReaders,
                  probeVars >>

\* mutant: get_vip_domains authenticates like the tools of the provider
getVipDomainsAuthenticated(s) ==
  /\ CanStart(s)
  /\ IF ~isAuthenticated
     THEN BeginAuthenticate(s, "get_vip_domains", NoArgs)
     ELSE Return(s, [ kind |-> "result", slot |-> s, name |-> "get_vip_domains",
                      args |-> NoArgs, vipDomains |-> VIP_DOMAINS ])
  /\ UNCHANGED << VIP_DOMAINS, gmail, auth, credentialsFile, tokenFile,
                  stdinReaders, probeVars >>

getVipDomains(s) ==
  /\ CanStart(s)
  /\ Return(s, [ kind |-> "result", slot |-> s, name |-> "get_vip_domains",
                 args |-> NoArgs, vipDomains |-> VIP_DOMAINS ])
  /\ UNCHANGED << VIP_DOMAINS, gmail, auth, credentialsFile, tokenFile,
                  stdinReaders, probeVars >>

\* the default of the switch
UnknownTool(s) ==
  /\ CanStart(s)
  /\ Throw(s, "no_such_tool", "Unknown tool: no_such_tool")
  /\ UNCHANGED << VIP_DOMAINS, gmail, auth, credentialsFile, tokenFile,
                  stdinReaders, probeVars >>

\* the transport writes the result of the handler
Send ==
  /\ response.kind # "none"
  /\ response' = NoResponse
  /\ UNCHANGED << VIP_DOMAINS, gmail, auth, credentialsFile, tokenFile, slots,
                  stdinReaders, probeVars >>

(***************************************************************************)
(* The files of dist/.                                                     *)
(***************************************************************************)
\* the standalone script: it ends with credentials.json and token.json in dist/
RunAuthScript ==
  /\ response.kind = "none"
  /\ tokenFile = "missing"
  /\ credentialsFile' = "ok"
  /\ tokenFile' = "ok"
  /\ UNCHANGED << VIP_DOMAINS, gmail, auth, slots, response, stdinReaders,
                  probeVars >>

\* token.json is deleted
RemoveToken ==
  /\ response.kind = "none"
  /\ tokenFile = "ok"
  /\ tokenFile' = "missing"
  /\ UNCHANGED << VIP_DOMAINS, gmail, auth, credentialsFile, slots, response,
                  stdinReaders, probeVars >>

(***************************************************************************)
(* Specifications.                                                         *)
(***************************************************************************)
NotExtracted == [ body |-> <<>>, hasAttachments |-> FALSE ]

ProbeIdle ==
  /\ email = ProbeNone /\ score = 0 /\ scoredAt = 0 /\ probePc = "off"
  /\ payload = NoPayload /\ extracted = NotExtracted

\* the state after `new EmailReminderServer()` and run()
InitServer ==
  /\ VIP_DOMAINS = <<>>
  /\ gmail = Null
  /\ auth = Null
  /\ slots = [s \in Slots |-> IdleSlot]
  /\ response = NoResponse
  /\ stdinReaders = 0
  /\ ProbeIdle

Init ==
  /\ InitServer
  /\ credentialsFile \in {"missing", "ok"}
  /\ tokenFile \in {"missing", "ok"}

\* the server with its requests handled concurrently
Next ==
  \/ \E s \in Slots, hasArgs \in BOOLEAN, args \in ConcImportantArgs :
       getImportantEmails(s, hasArgs, args)
  \/ \E s \in Slots, hasArgs \in BOOLEAN, args \in ConcSummaryArgs :
       getEmailSummary(s, hasArgs, args)
  \/ \E s \in Slots, hasArgs \in BOOLEAN, args \in MarkArgs :
       markEmailHandled(s, hasArgs, args)
  \/ \E s \in Slots, hasArgs \in BOOLEAN, args \in DomainArgs :
       addVipDomain(s, hasArgs, args)
  \/ \E s \in Slots : getVipDomains(s)
  \/ \E s \in Slots : UnknownTool(s)
  \/ \E s \in Slots : AuthCredentialsRead(s)
  \/ \E s \in Slots : AuthTokenRead(s)
  \/ \E s \in Slots : MessagesListed(s, ConcLists)
  \/ \E s \in Slots : MessageFetched(s)
  \/ \E s \in Slots : MessageModified(s)
  \/ Send
  \/ RunAuthScript
  \/ RemoveToken

Spec == Init /\ [][Next]_vars

\* one request at a time, with every argument and every batch
InitTriage ==
  /\ InitServer
  /\ credentialsFile = "ok"
  /\ tokenFile = "ok"

NextTriage ==
  \/ \E hasArgs \in BOOLEAN, args \in TriageImportantArgs :
       getImportantEmails(1, hasArgs, args)
  \/ \E hasArgs \in BOOLEAN, args \in ConcSummaryArgs :
       getEmailSummary(1, hasArgs, args)
  \/ \E hasArgs \in BOOLEAN, args \in DomainArgs : addVipDomain(1, hasArgs, args)
  \/ getVipDomains(1)
  \/ AuthCredentialsRead(1)
  \/ AuthTokenRead(1)
  \/ MessagesListed(1, TriageLists)
  \/ MessageFetched(1)
  \/ Send

SpecTriage == InitTriage /\ [][NextTriage]_vars

\* the scoring function applied to every input
InitScore ==
  /\ VIP_DOMAINS \in ProbeVipLists
  /\ email \in ProbeEmails
  /\ score = 0
  /\ scoredAt = 0
  /\ probePc = "input"
  /\ payload = NoPayload
  /\ extracted = NotExtracted
  /\ gmail = Null
  /\ auth = Null
  /\ credentialsFile = "ok"
  /\ tokenFile = "ok"
  /\ slots = [s \in Slots |-> IdleSlot]
  /\ response = NoResponse
  /\ stdinReaders = 0

ScoreProbe ==
  /\ probePc = "input"
  /\ \E now \in NowValues :
       /\ score' = scoreEmailImportance(email, VIP_DOMAINS, now)
       /\ scoredAt' = now
  /\ probePc' = "scored"
  /\ UNCHANGED << VIP_DOMAINS, email, payload, extracted, serverVars >>

NextScore == ScoreProbe

SpecScore == InitScore /\ [][NextScore]_vars

\* extractBody and hasAttachments applied to every message structure
InitParts ==
  /\ VIP_DOMAINS = <<>>
  /\ email = ProbeNone
  /\ score = 0
  /\ scoredAt = 0
  /\ probePc = "input"
  /\ payload \in ProbePayloads
  /\ extracted = NotExtracted
  /\ gmail = Null
  /\ auth = Null
  /\ credentialsFile = "ok"
  /\ tokenFile = "ok"
  /\ slots = [s \in Slots |-> IdleSlot]
  /\ response = NoResponse
  /\ stdinReaders = 0

ExtractProbe ==
  /\ probePc = "input"
  /\ extracted' = [ body |-> extractBody(payload),
                    hasAttachments |-> hasAttachments(payload) ]
  /\ probePc' = "extracted"
  /\ UNCHANGED << VIP_DOMAINS, email, score, scoredAt, payload, serverVars >>

NextParts == ExtractProbe

SpecParts == InitParts /\ [][NextParts]_vars

\* the VIP list filled with spellings of one domain, and the scoring function
\* applied against it
CaseDomainInputs == { <<"v", "i", "p", ".", "c", "o", "m">>, <<"V", "I", "P", ".", "c", "o", "m">>, <<"V", "i", "p", ".", "C", "o", "m">> }

CaseDomainArgs == { [NoArgs EXCEPT !.domain = <<d>>] : d \in CaseDomainInputs }

CaseProbeEmails ==
  { e \in ProbeEmails : /\ e.received = DateOf(-MsPerHour)
                        /\ e.isDirect /\ ~e.hasAttachments
                        /\ Len(e.body) < PadLen }

InitCase ==
  /\ VIP_DOMAINS = <<>>
  /\ email \in CaseProbeEmails
  /\ score = 0
  /\ scoredAt = 0
  /\ probePc = "input"
  /\ payload = NoPayload
  /\ extracted = NotExtracted
  /\ gmail = Null
  /\ auth = Null
  /\ credentialsFile = "ok"
  /\ tokenFile = "ok"
  /\ slots = [s \in Slots |-> IdleSlot]
  /\ response = NoResponse
  /\ stdinReaders = 0

NextCase ==
  \/ \E args \in CaseDomainArgs : addVipDomain(1, TRUE, args)
  \/ getVipDomains(1)
  \/ Send
  \/ ScoreProbe

SpecCase == InitCase /\ [][NextCase]_vars
(***************************************************************************)
(* Properties of scoreEmailImportance (under SpecScore).                   *)
(***************************************************************************)
Scored == probePc = "scored"

\* the entries of the spam vocabulary found in the lower-cased subject or in
\* the lower-cased first 500 characters of the body
SpamIndicatorsIn(e) ==
  { i \in 1..Len(SPAM_INDICATORS) :
      \/ Includes(ToLowerCase(e.subject), SPAM_INDICATORS[i])
      \/ Includes(SubSeq(ToLowerCase(e.body), 1, Min(500, Len(e.body))),
                  SPAM_INDICATORS[i]) }

\* the lower-cased sender contains a VIP domain
MatchesVip(sender, vipDomains) ==
  \E i \in 1..Len(vipDomains) : Includes(ToLowerCase(sender), vipDomains[i])

\* C1: an email with at least 2 spam indicators in its subject or in the first
\* 500 characters of its body scores exactly -10, whatever its sender, its
\* keywords, isDirect, hasAttachments and its age are
C1_SpamShortCircuit ==
  (Scored /\ Cardinality(SpamIndicatorsIn(email)) >= 2) => score = -Pts(10)

\* a spam email of a VIP sender, direct and recent, was scored -10
C1_Witness ==
  /\ Scored
  /\ Cardinality(SpamIndicatorsIn(email)) >= 2
  /\ MatchesVip(email.from, VIP_DOMAINS)
  /\ email.isDirect
  /\ HoursOldLt(email.received, scoredAt, 4)
  /\ score = -Pts(10)

\* C2: the score is at most 100; with fewer than 2 spam indicators it is at
\* least 0, so that a negative score comes from the spam short-circuit only
C2_ScoreRange ==
  Scored =>
    /\ score <= Pts(100)
    /\ (Cardinality(SpamIndicatorsIn(email)) < 2 => score >= 0)
    /\ (score < 0 => Cardinality(SpamIndicatorsIn(email)) >= 2)

\* an email whose terms sum to more than 100 was scored 100
C2_Witness ==
  /\ Scored
  /\ RawScore(email, VIP_DOMAINS, scoredAt) > Pts(100)
  /\ Cardinality(SpamIndicatorsIn(email)) < 2
  /\ score = Pts(100)

\* the message of the scenario: received 1 hour before it is scored
IsScenario ==
  /\ email.subject = <<"U", "R", "G", "E", "N", "T", ":", " ", "a", "c", "t", "i", "o", "n", " ", "r", "e", "q", "u", "i", "r", "e", "d">>
  /\ email.body = <<"p", "l", "e", "a", "s", "e", " ", "r", "e", "s", "p", "o", "n", "d", " ", "a", "s", "a", "p">>
  /\ email.from = <<"b", "o", "s", "s", "@", "v", "i", "p", ".", "c", "o", "m">>
  /\ email.isDirect
  /\ ~email.hasAttachments
  /\ email.received = DateOf(scoredAt - MsPerHour)
  /\ VIP_DOMAINS = << <<"v", "i", "p", ".", "c", "o", "m">> >>

Tier(received, now) ==
  IF now - received.time < 4 * MsPerHour THEN 2
  ELSE IF now - received.time < 24 * MsPerHour THEN 1
  ELSE 0

ScoreAt(e) == scoreEmailImportance(e, VIP_DOMAINS, scoredAt)

\* C4: at the same reference time and with the same VIP list, the score does
\* not decrease when only the sender changes from no VIP match to a VIP match,
\* or only isDirect or only hasAttachments changes from false to true, or only
\* the age moves to a more recent tier
C4_Monotone ==
  Scored =>
    /\ \A from \in ProbeSenders :
         (~MatchesVip(email.from, VIP_DOMAINS) /\ MatchesVip(from, VIP_DOMAINS))
           => ScoreAt([email EXCEPT !.from = from]) >= score
    /\ ~email.isDirect => ScoreAt([email EXCEPT !.isDirect = TRUE]) >= score
    /\ ~email.hasAttachments
         => ScoreAt([email EXCEPT !.hasAttachments = TRUE]) >= score
    /\ \A received \in ProbeReceived :
         ( /\ email.received.valid
           /\ received.valid
           /\ Tier(received, scoredAt) > Tier(email.received, scoredAt) )
           => ScoreAt([email EXCEPT !.received = received]) >= score

\* an email was scored that scores strictly more with a VIP sender, as a direct
\* email, with an attachment and in a more recent tier
C4_Witness ==
  /\ Scored
  /\ \E from \in ProbeSenders :
       /\ ~MatchesVip(email.from, VIP_DOMAINS)
       /\ MatchesVip(from, VIP_DOMAINS)
       /\ ScoreAt([email EXCEPT !.from = from]) > score
  /\ ~email.isDirect /\ ScoreAt([email EXCEPT !.isDirect = TRUE]) > score
  /\ ~email.hasAttachments
  /\ ScoreAt([email EXCEPT !.hasAttachments = TRUE]) > score
  /\ \E received \in ProbeReceived :
       /\ email.received.valid /\ received.valid
       /\ Tier(received, scoredAt) > Tier(email.received, scoredAt)
       /\ ScoreAt([email EXCEPT !.received = received]) > score

(***************************************************************************)
(* Properties of the tool results (under SpecTriage).                      *)
(***************************************************************************)
IdsOf(emails) == [ i \in 1..Len(emails) |-> emails[i].id ]

ImportantReturned ==
  response.kind = "result" /\ response.name = "get_important_emails"

\* the list is ordered by non-increasing importanceScore
SortedDesc(list) ==
  \A i, j \in 1..Len(list) :
    i < j => list[i].importanceScore >= list[j].importanceScore

\* every entry of the list has importanceScore >= min_importance
AllAtLeast(list, minImportance) ==
  \A i \in 1..Len(list) : list[i].importanceScore >= Pts(minImportance)

\* C5 as claimed: for any min_importance and max_results, 0 and negative
\* numbers included, the returned list is ordered by non-increasing score,
\* holds scores >= min_importance only and has at most max_results entries
C5_Original ==
  ImportantReturned =>
    /\ SortedDesc(response.emails)
    /\ AllAtLeast(response.emails, Nullish(response.args.min_importance, 30))
    /\ Len(response.emails) <= Nullish(response.args.max_results, 10)

\* C5 amended: the list is ordered by non-increasing score and holds scores
\* >= min_importance only; it has at most max_results entries when
\* max_results >= 0, and at most max(0, n + max_results) entries, of n fetched
\* emails, when max_results is negative
C5_ImportantList ==
  ImportantReturned =>
    LET maxResults == Nullish(response.args.max_results, 10)
    IN /\ SortedDesc(response.emails)
       /\ AllAtLeast(response.emails, Nullish(response.args.min_importance, 30))
       /\ response.totalImportant = Len(response.emails)
       /\ maxResults >= 0 => Len(response.emails) <= maxResults
       /\ maxResults < 0 =>
            Len(response.emails) <= Max(0, Len(response.fetched) + maxResults)

\* a call with max_results -1 returned two emails, the higher score first, of
\* a batch that was fetched in the opposite order
C5_Witness ==
  /\ ImportantReturned
  /\ response.args.max_results = << -1 >>
  /\ Len(response.emails) = 2
  /\ response.emails[1].importanceScore > response.emails[2].importanceScore
  /\ response.fetched[1] = response.emails[2].id

SummaryReturned ==
  response.kind = "result" /\ response.name = "get_email_summary"

\* C6: the four counts of get_email_summary add up to totalUnread, the number
\* of fetched emails: every score is in exactly one of the categories
C6_SummaryPartition ==
  SummaryReturned =>
    /\ response.totalUnread = Len(response.fetched)
    /\ response.breakdown.urgent + response.breakdown.important
         + response.breakdown.normal + response.breakdown.likelySpam
       = response.totalUnread

\* a summary of three emails: one urgent, one that scores exactly 0, one spam
C6_Witness ==
  /\ SummaryReturned
  /\ response.totalUnread = 3
  /\ response.breakdown.urgent = 1
  /\ response.breakdown.normal = 1
  /\ response.breakdown.likelySpam = 1
  /\ \E i \in 1..3 : response.fetched[i] = 3

(***************************************************************************)
(* Properties of the VIP list and of the session (under Spec).             *)
(***************************************************************************)
NoDuplicates(list) == \A i, j \in 1..Len(list) : i # j => list[i] # list[j]

Contains(list, x) == \E i \in 1..Len(list) : list[i] = x

AddVipReturned(r) == r.kind = "result" /\ r.name = "add_vip_domain"

\* C7: the VIP list never holds a duplicate and lists the domains in the order
\* of their first insertion: a step leaves it unchanged or appends a domain
\* that it does not hold; add_vip_domain of a domain that it holds leaves it
\* unchanged, and add_vip_domain of another appends it
C7_VipRegistry ==
  [][ /\ NoDuplicates(VIP_DOMAINS')
      /\ \/ VIP_DOMAINS' = VIP_DOMAINS
         \/ \E d \in DomainInputs :
              ~Contains(VIP_DOMAINS, d) /\ VIP_DOMAINS' = Append(VIP_DOMAINS, d)
      /\ (response.kind = "none" /\ AddVipReturned(response')) =>
           LET d == response'.args.domain[1]
           IN /\ Contains(VIP_DOMAINS, d) => VIP_DOMAINS' = VIP_DOMAINS
              /\ ~Contains(VIP_DOMAINS, d) => VIP_DOMAINS' = Append(VIP_DOMAINS, d)
              /\ response'.vipDomains = VIP_DOMAINS'
    ]_vars

\* add_vip_domain of the first of two listed domains has returned
C7_Witness ==
  /\ AddVipReturned(response)
  /\ Len(VIP_DOMAINS) = 2
  /\ response.args.domain[1] = VIP_DOMAINS[1]
  /\ response.vipDomains = VIP_DOMAINS

\* slot s is inside authenticate()
InAuthenticate(s) == slots[s].pc \in {"authCredentials", "authToken"}

\* C8 as claimed: an authenticate() that ends while no token is present fails
\* with the AuthRequired error that carries the authorization URL, no prompt
\* is started on standard input and the Mail Source is Unauthenticated
C8_Original ==
  [][ \A s \in Slots :
        ( /\ InAuthenticate(s)
          /\ tokenFile = "missing"
          /\ slots'[s].pc = "idle" )
        => /\ response'.kind = "error"
           /\ response'.hasAuthUrl
           /\ stdinReaders' = 0
           /\ ~isAuthenticated'
    ]_vars

\* C8 amended: no prompt is ever started on standard input; when the client
\* credentials have loaded and no token is present, authenticate() fails with
\* the AuthRequired error that carries the authorization URL and leaves the
\* session as it was
C8_AuthRequired ==
  /\ [](stdinReaders = 0)
  /\ [][ \A s \in Slots :
           ( /\ slots[s].pc = "authToken"
             /\ tokenFile = "missing"
             /\ slots'[s] # slots[s] )
           => /\ response'.kind = "error"
              /\ response'.slot = s
              /\ response'.hasAuthUrl
              /\ slots'[s].pc = "idle"
              /\ auth' = auth
              /\ gmail' = gmail
       ]_vars

\* the AuthRequired error was returned, and the Mail Source is Unauthenticated
C8_Witness ==
  /\ response.kind = "error"
  /\ response.hasAuthUrl
  /\ tokenFile = "missing"
  /\ ~isAuthenticated
  /\ stdinReaders = 0

\* C9 as claimed: once the Mail Source is Authenticated, an authenticate()
\* loads neither credentials nor token, does not fail and leaves the session
\* unchanged: no call of authenticate() takes a step
C9_AuthenticateNoOp ==
  [][ isAuthenticated =>
        /\ auth' = auth
        /\ gmail' = gmail
        /\ \A s \in Slots : InAuthenticate(s) => slots'[s] = slots[s]
    ]_vars

\* C10 as claimed: the session is assigned at most once, whatever the
\* interleaving of the requests is
C10_AssignedOnce ==
  [][ (auth' # auth \/ gmail' # gmail) => (auth = Null /\ gmail = Null) ]_vars


(***************************************************************************)
(* Lazy authentication (under Spec).                                       *)
(***************************************************************************)
\* the tools whose handler calls authenticate()
ProviderTools == { "get_important_emails", "get_email_summary", "mark_email_handled" }

\* the tools of the VIP list
VipTools == { "add_vip_domain", "get_vip_domains" }

\* the handler of a tool of names returns in this step
Returns(names) == response.kind = "none" /\ response'.kind # "none"
                  /\ response'.name \in names

\* C11: after startup the Mail Source is Unauthenticated and no authenticate()
\* is running; a call of authenticate() is begun only by the handler of
\* get_important_emails, get_email_summary or mark_email_handled; the handlers
\* of add_vip_domain and get_vip_domains begin none and leave the session as
\* it is, get_vip_domains always succeeds and add_vip_domain fails only for a
\* missing domain argument, Unauthenticated or not
C11_LazyAuthentication ==
  /\ (~isAuthenticated /\ \A s \in Slots : slots[s].pc = "idle")
  /\ [][ /\ \A s \in Slots :
              (~InAuthenticate(s) /\ InAuthenticate(s)') =>
                /\ slots[s].pc = "idle"
                /\ slots'[s].name \in ProviderTools
         /\ Returns(VipTools) =>
              /\ auth' = auth /\ gmail' = gmail
              /\ \A s \in Slots : InAuthenticate(s)' => InAuthenticate(s)
              /\ response'.name = "get_vip_domains" => response'.kind = "result"
              /\ (response'.name = "add_vip_domain" /\ response'.kind = "error")
                   => response'.text[2] \in { "domain is required",
                                              "Cannot read properties of undefined" }
     ]_vars

\* add_vip_domain has succeeded while the Mail Source is Unauthenticated and
\* the authenticate() of a get_email_summary call is suspended
C11_Witness ==
  /\ AddVipReturned(response)
  /\ ~isAuthenticated
  /\ \E s \in Slots : InAuthenticate(s) /\ slots[s].name = "get_email_summary"

(***************************************************************************)
(* Batches of listed messages (under SpecTriage).                          *)
(***************************************************************************)
\* the Date header of message id is not a date
MalformedDate(id) == \E now \in NowValues : ~FetchedEmail[id][now].received.valid

\* C12 as claimed: when the last message of a batch has been handled, the tool
\* returns a successful result, computed from exactly the fetched messages
\* whose Date header is a date, in listing order: a message that could not be
\* fetched or that is malformed is skipped and does not abort the batch
C12_SkipsBadMessages ==
  [][ \A s \in Slots :
        (slots[s].pc = "get" /\ slots'[s].pc = "idle") =>
          /\ response'.kind = "result"
          /\ \E last \in { <<>>, << Head(slots[s].pending) >> } :
               response'.fetched =
                 SelectSeq(IdsOf(slots[s].emails) \o last,
                           LAMBDA id : ~MalformedDate(id))
    ]_vars

\* C15 as claimed: whatever min_importance is, no message that
\* get_important_emails returns is scored as likely spam (a score below 0)
C15_ExcludesSpam ==
  ImportantReturned =>
    \A i \in 1..Len(response.emails) : response.emails[i].importanceScore >= 0

\* returned is made of the count highest entries of scored that have a score
\* >= minImportance: each is such an entry, none is taken twice, and no such
\* entry that is left out has a strictly greater score than one that is taken
TopOf(returned, scored, minImportance, count) ==
  LET qualifying == { i \in 1..Len(scored) :
                        scored[i].importanceScore >= Pts(minImportance) }
  IN /\ Len(returned) = Min(count, Cardinality(qualifying))
     /\ \E taken \in SUBSET qualifying :
          /\ Cardinality(taken) = Len(returned)
          /\ \A k \in 1..Len(returned) :
               \E i \in taken : /\ scored[i].email.id = returned[k].id
                                /\ scored[i].importanceScore
                                     = returned[k].importanceScore
          /\ \A i \in qualifying \ taken, j \in taken :
               scored[i].importanceScore <= scored[j].importanceScore

\* what the step that ends the fetch of slot s adds to its batch: nothing, or
\* the last listed message
FetchedLast(s, now) ==
  IF slots[s].pc = "get"
  THEN { <<>>, << FetchedEmail[Head(slots[s].pending)][now] >> }
  ELSE { <<>> }

\* C16: when get_important_emails returns its list for a max_results >= 0,
\* the list is made of the min(max_results, n) highest-scoring of the n
\* fetched messages with a score >= min_importance, scored at the end of the
\* fetch, and totalImportant is its length
C16_TruncatesLast ==
  [][ \A s \in Slots :
        ( /\ slots[s].pc \in {"list", "get"}
          /\ response.kind = "none"
          /\ response'.kind = "result"
          /\ response'.name = "get_important_emails"
          /\ response'.slot = s
          /\ Nullish(response'.args.max_results, 10) >= 0 )
        => /\ response'.totalImportant = Len(response'.emails)
           /\ \E now \in NowValues :
                \E last \in FetchedLast(s, now) :
                  /\ IdsOf(slots[s].emails \o last) = response'.fetched
                  /\ TopOf(response'.emails,
                           ScoreAll(slots[s].emails \o last, VIP_DOMAINS, now),
                           Nullish(response'.args.min_importance, 30),
                           Nullish(response'.args.max_results, 10))
    ]_vars

\* with max_results 1 and min_importance 0, one message is returned of three
\* fetched ones, of which two qualify: the one listed first is left out
C16_Witness ==
  /\ ImportantReturned
  /\ response.args.max_results = << 1 >>
  /\ response.args.min_importance = << 0 >>
  /\ Len(response.fetched) = 3
  /\ response.fetched[1] = 4
  /\ Len(response.emails) = 1
  /\ response.emails[1].id = 1

(***************************************************************************)
(* Failures of a tool call (under Spec).                                   *)
(***************************************************************************)
\* the messages of the errors that a tool call can fail with
ErrorMessages ==
  { "Error loading credentials.json.",
    "No token.json found. Gmail authentication required.",
    "Gmail client not authenticated",
    "messages.list failed", "messages.modify failed",
    "email_id is required", "domain is required",
    "Cannot read properties of undefined",
    "Unknown tool: no_such_tool", "Invalid time value" }

\* r is the error result of the call of slot s, with the text "Error: " + message
IsError(r, s, message) ==
  r.kind = "error" /\ r.slot = s /\ r.text = << "Error: ", message >>

\* the call of slot s takes a step
Steps(s) == slots'[s] # slots[s]

\* C13: a call ends with exactly one result, handed to the transport while no
\* other result is pending; every error result has the text "Error: <message>";
\* a failed load of credentials.json or token.json, a failed messages.list or
\* messages.modify, a missing argument and an unknown tool name end the call
\* with the error result (the remote call is not issued again); the result is
\* then sent and the calls of the other slots go on
C13_ErrorsReturned ==
  [][ /\ response' # response =>
           \/ response.kind = "none" /\ response'.kind \in {"result", "error"}
              /\ slots'[response'.slot].pc = "idle"
              /\ \A s \in Slots \ {response'.slot} : slots'[s] = slots[s]
           \/ response.kind # "none" /\ response' = NoResponse /\ slots' = slots
      /\ \A s \in Slots :
           /\ (Steps(s) /\ slots'[s].pc = "idle") =>
                response.kind = "none" /\ response'.kind # "none"
                /\ response'.slot = s
           /\ (response.kind = "none" /\ response'.kind = "error") =>
                /\ response'.text[1] = "Error: "
                /\ response'.text[2] \in ErrorMessages
           /\ (Steps(s) /\ slots[s].pc = "authCredentials"
                 /\ credentialsFile = "missing") =>
                IsError(response', s, "Error loading credentials.json.")
           /\ (Steps(s) /\ slots[s].pc = "authToken" /\ tokenFile = "missing") =>
                IsError(response', s,
                        "No token.json found. Gmail authentication required.")
           /\ (Steps(s) /\ slots[s].pc = "list") =>
                \/ slots'[s].pc = "get"
                \/ IsError(response', s, "messages.list failed")
                \/ response'.kind = "result" /\ response'.fetched = <<>>
           /\ (Steps(s) /\ slots[s].pc = "modify") =>
                \/ IsError(response', s, "messages.modify failed")
                \/ response'.kind = "result" /\ response'.slot = s
      /\ (response.kind = "none" /\ response'.kind # "none") =>
           /\ response'.name = "no_such_tool" =>
                IsError(response', response'.slot, "Unknown tool: no_such_tool")
           /\ (response'.name = "mark_email_handled" /\ response'.kind = "result")
                => response'.args.email_id # <<>>
           /\ (response'.name = "add_vip_domain" /\ response'.kind = "result")
                => response'.args.domain # <<>>
  ]_vars

\* markAsRead has failed and its error is returned while the Mail Source is
\* Authenticated and the fetch of another call goes on
C13_Witness ==
  /\ response.kind = "error"
  /\ response.name = "mark_email_handled"
  /\ response.text = << "Error: ", "messages.modify failed" >>
  /\ isAuthenticated
  /\ \E s \in Slots : slots[s].pc = "get"

(***************************************************************************)
(* The VIP list under concurrent requests (under Spec).                    *)
(***************************************************************************)
\* the number of entries of list that are x
Occurrences(list, x) == Cardinality({ i \in 1..Len(list) : list[i] = x })

\* C14: whatever calls are suspended on their remote I/O, the domain of an
\* add_vip_domain call that completes is in the VIP list exactly once when the
\* call returns, and no later step of any call removes or repeats a domain of
\* the list: no add is lost
C14_NoLostAdd ==
  [][ /\ (response.kind = "none" /\ AddVipReturned(response')) =>
           Occurrences(VIP_DOMAINS', response'.args.domain[1]) = 1
      /\ \A d \in DomainInputs :
           Occurrences(VIP_DOMAINS, d) = 1 => Occurrences(VIP_DOMAINS', d) = 1
    ]_vars

\* the second of two domains was added while the fetch of another call is
\* suspended, and both are in the VIP list
C14_Witness ==
  /\ AddVipReturned(response)
  /\ Len(VIP_DOMAINS) = 2
  /\ response.args.domain[1] = VIP_DOMAINS[2]
  /\ \A d \in DomainInputs : Occurrences(VIP_DOMAINS, d) = 1
  /\ \E s \in Slots : slots[s].pc \in {"list", "get"}

(***************************************************************************)
(* Properties of extractBody and hasAttachments (under SpecParts).         *)
(***************************************************************************)
Extracted == probePc = "extracted"

RECURSIVE FirstPlainBelow(_)
\* the content of the first text/plain part with content that a depth-first
\* traversal of the parts of part meets, "" when there is none
FirstPlainBelow(part) ==
  LET Found(p) == IF p.mimeType = "text/plain" /\ p.data # <<>>
                  THEN Base64Decode(p.data)
                  ELSE FirstPlainBelow(p)
      found == { i \in 1..Len(part.parts) : Found(part.parts[i]) # <<>> }
  IN IF found = {} THEN <<>> ELSE Found(part.parts[First(found)])

\* C17 as claimed: the extracted body of a message with parts is the content
\* of the first text/plain part of a depth-first traversal of its part tree,
\* and the top-level body is used only by a message without parts
C17_FirstPlainDepthFirst ==
  Extracted =>
    /\ ~payload.hasParts => extracted.body = Base64Decode(payload.data)
    /\ (payload.hasParts /\ FirstPlainBelow(payload) # <<>>) =>
         extracted.body = FirstPlainBelow(payload)
    /\ (payload.hasParts /\ FirstPlainBelow(payload) = <<>>
          /\ payload.data # <<>>) =>
         extracted.body # Base64Decode(payload.data)

RECURSIVE AttachmentWithin(_)
\* part, or a part below it, has a non-empty filename and an attachment
\* reference
AttachmentWithin(part) ==
  \/ part.filename # <<>> /\ part.attachmentId # <<>>
  \/ \E i \in 1..Len(part.parts) : AttachmentWithin(part.parts[i])

\* C18 as claimed: hasAttachments is true exactly when some part of the
\* message, at any depth, has a non-empty filename and an attachment reference
C18_AnyDepthAttachment ==
  Extracted => (extracted.hasAttachments <=> AttachmentWithin(payload))

(***************************************************************************)
(* Scoring against the VIP list under concurrent requests (under Spec).    *)
(***************************************************************************)
\* the number of emails of batch with lo <= score < hi, scored against
\* vipDomains at time now
CountScored(batch, vipDomains, now, lo, hi) ==
  Cardinality({ i \in 1..Len(batch) :
                  LET points == scoreEmailImportance(batch[i], vipDomains, now)
                  IN lo <= points /\ points < hi })

\* the result r of the call of slot s holds the scores of batch against
\* vipDomains at time now
ScoredAgainst(r, batch, vipDomains, now) ==
  IF r.name = "get_important_emails"
  THEN \A k \in 1..Len(r.emails) :
         \E i \in 1..Len(batch) :
           /\ batch[i].id = r.emails[k].id
           /\ r.emails[k].importanceScore
                = scoreEmailImportance(batch[i], vipDomains, now)
  ELSE /\ r.breakdown.urgent = CountScored(batch, vipDomains, now, Pts(70), Pts(101))
       /\ r.breakdown.important
            = CountScored(batch, vipDomains, now, Pts(40), Pts(70))
       /\ r.breakdown.normal = CountScored(batch, vipDomains, now, Pts(0), Pts(40))
       /\ r.breakdown.likelySpam
            = CountScored(batch, vipDomains, now, Pts(-10), Pts(0))

\* C19: the step that ends the fetch of get_important_emails or
\* get_email_summary scores every message of the batch against the VIP list of
\* that moment, which the step leaves as it is; while a fetch is suspended its
\* messages carry no score, so that an add_vip_domain handled meanwhile counts
\* for all of them; and the VIP list changes only while no result is pending,
\* so that a later add_vip_domain changes no score of a result
C19_OneVipSnapshot ==
  [][ /\ \A s \in Slots :
           ( /\ slots[s].pc \in {"list", "get"}
             /\ response.kind = "none"
             /\ response'.kind = "result"
             /\ response'.slot = s )
           => /\ VIP_DOMAINS' = VIP_DOMAINS
              /\ \E now \in NowValues :
                   \E last \in FetchedLast(s, now) :
                     /\ IdsOf(slots[s].emails \o last) = response'.fetched
                     /\ ScoredAgainst(response', slots[s].emails \o last,
                                      VIP_DOMAINS, now)
      /\ VIP_DOMAINS' # VIP_DOMAINS =>
           /\ response.kind = "none"
           /\ AddVipReturned(response')
           /\ \A s \in Slots \ {response'.slot} : slots'[s] = slots[s]
    ]_vars

\* get_important_emails has returned the messages of vip.com and of acme.com,
\* both with the VIP points, acme.com being the domain that was added last
C19_Witness ==
  /\ ImportantReturned
  /\ VIP_DOMAINS = << <<"v", "i", "p", ".", "c", "o", "m">>, <<"a", "c", "m", "e", ".", "c", "o", "m">> >>
  /\ Len(response.emails) = 2
  /\ response.emails[1].id = 1 /\ response.emails[1].importanceScore = SubjectPts(19) + Pts(62)
  /\ response.emails[2].id = 5
  /\ response.emails[2].importanceScore
       = scoreEmailImportance(FetchedEmail[5][0], << <<"a", "c", "m", "e", ".", "c", "o", "m">> >>, 0)
  /\ response.emails[2].importanceScore
       > scoreEmailImportance(FetchedEmail[5][0], <<>>, 0)

(***************************************************************************)
(* The session of the Mail Source (under Spec).                            *)
(***************************************************************************)
\* C20: auth and gmail are both null or both the same client; once
\* isAuthenticated() is true it is true in every later state, whatever call
\* fails and whatever happens to token.json; an authenticate() that fails
\* leaves auth and gmail as they are, and while isAuthenticated() is false
\* every call of a tool of the provider begins with authenticate()
C20_SessionMonotonic ==
  /\ []((auth = Null <=> gmail = Null) /\ gmail = auth)
  /\ [][ /\ isAuthenticated => isAuthenticated'
         /\ \A s \in Slots :
              /\ (InAuthenticate(s) /\ Steps(s) /\ response'.kind = "error") =>
                   auth' = auth /\ gmail' = gmail
              /\ (~isAuthenticated /\ slots[s].pc = "idle" /\ Steps(s)
                    /\ slots'[s].pc # "idle") =>
                   slots'[s].pc = "authCredentials"
     ]_vars

\* an authenticate() has failed for the removed token.json while the Mail
\* Source is Authenticated, and it still is
C20_Witness ==
  /\ isAuthenticated
  /\ tokenFile = "missing"
  /\ response.kind = "error"
  /\ response.hasAuthUrl

(***************************************************************************)
(* Letter case in the VIP list (under SpecCase).                           *)
(***************************************************************************)
\* the domain holds an upper-case letter
HasUpperCase(domain) == ToLowerCase(domain) # domain

\* the entries of vipDomains without an upper-case letter
LowerCaseEntries(vipDomains) ==
  SelectSeq(vipDomains, LAMBDA domain : ~HasUpperCase(domain))

\* C21: the sender is lower-cased and the VIP domains are looked for in it as
\* they are stored, so that an entry with an upper-case letter adds the VIP
\* points to no email: the score is the one against the entries without an
\* upper-case letter; and add_vip_domain looks for the exact spelling in the
\* list, so that a spelling that differs from an entry in case only is
\* appended as a further entry
C21_CaseSensitiveVip ==
  [][ /\ (probePc = "input" /\ probePc' = "scored") =>
           /\ score' = scoreEmailImportance(email, LowerCaseEntries(VIP_DOMAINS),
                                           scoredAt')
           /\ (\A i \in 1..Len(VIP_DOMAINS) : HasUpperCase(VIP_DOMAINS[i])) =>
                score' = scoreEmailImportance(email, <<>>, scoredAt')
      /\ (response.kind = "none" /\ AddVipReturned(response')) =>
           LET d == response'.args.domain[1]
           IN /\ Contains(VIP_DOMAINS, d) => VIP_DOMAINS' = VIP_DOMAINS
              /\ ~Contains(VIP_DOMAINS, d) => VIP_DOMAINS' = Append(VIP_DOMAINS, d)
              /\ ( /\ ~Contains(VIP_DOMAINS, d)
                   /\ \E i \in 1..Len(VIP_DOMAINS) :
                        ToLowerCase(VIP_DOMAINS[i]) = ToLowerCase(d) )
                 => Len(VIP_DOMAINS') = Len(VIP_DOMAINS) + 1
    ]_vars

\* "Vip.Com" was added behind "VIP.com" as a second entry, and the email of
\* Boss@VIP.COM is scored without the VIP points, which the entry "vip.com"
\* would give
C21_Witness ==
  /\ AddVipReturned(response)
  /\ VIP_DOMAINS = << <<"V", "I", "P", ".", "c", "o", "m">>, <<"V", "i", "p", ".", "C", "o", "m">> >>
  /\ response.args.domain[1] = <<"V", "i", "p", ".", "C", "o", "m">>
  /\ Scored
  /\ email.from = <<"B", "o", "s", "s", "@", "V", "I", "P", ".", "C", "O", "M">>
  /\ score = scoreEmailImportance(email, <<>>, scoredAt)
  /\ score + Pts(20) = scoreEmailImportance(email, << <<"v", "i", "p", ".", "c", "o", "m">> >>, scoredAt)
====
